---- MODULE Spec2Model ----
(***************************************************************************)
(* A model of chess_games_analysis: utils.py (load_chess_data,             *)
(* preprocess_data, categorize_time_control, get_opening_category) and the *)
(* data-loading part of dashboard.py.                                      *)
(*                                                                         *)
(* Text is a sequence of one-character strings, so that splitting,         *)
(* indexing and parsing are computed the way the Python code computes      *)
(* them.  A cell of a table is a record [t, s, n, d]:                      *)
(*   t = "NA"     a missing value (NaN / NaT / None)                       *)
(*   t = "str"    text s                                                   *)
(*   t = "int"    the integer n                                            *)
(*   t = "float"  the number n / d (d > 0)                                 *)
(*   t = "nan"    a float NaN that came out of float("nan")                *)
(*   t = "datetime"  day n after 0001-01-01, second d of that day          *)
(***************************************************************************)
EXTENDS Integers, Sequences, FiniteSets, TLC

VARIABLES
    \* SpecFn: one call of a classifier
    fn_pc,       \* "call_tc", "call_eco", "done_tc", "done_eco"
    fn_arg,      \* the argument: a cell
    fn_ret,      \* what the call returned or raised
    \* SpecPre: one call of preprocess_data
    heap,        \* the DataFrame objects: reference -> table
    caller_df,   \* the caller's reference to the raw table
    snapshot,    \* the raw table as the caller saw it before the call
    df,          \* preprocess_data's local name df: a reference (0: unbound)
    ppc,         \* the position in preprocess_data
    pre_exc,     \* the exception preprocess_data raised ("none")
    pre_line,    \* the line of utils.py that raised it (0)
    \* SpecLoad, SpecDash: load_chess_data and the dashboard script
    file_rows,   \* the data rows of chess_games.csv, as text
    fault,       \* -1: no such file; k > 0: block k is unreadable; 0: sound
    sample_size, \* the sample_size argument (0: None)
    lpc,         \* the position in load_chess_data
    chunks,      \* the local list chunks
    pos,         \* the rows of the file the reader has consumed
    loaded,      \* what load_chess_data returned: [none, df, index]
    dpc,         \* the position in the dashboard script
    dash_df,     \* the script's df: [none, df]
    st_errors,   \* the messages given to st.error, in order
    executed,    \* the later stages of the script that have run
    load_calls,  \* the calls of load_chess_data
    pre_calls    \* the calls of preprocess_data

fn_vars == <<fn_pc, fn_arg, fn_ret>>
pre_vars == <<heap, caller_df, snapshot, df, ppc, pre_exc, pre_line>>

load_vars == <<file_rows, fault, sample_size, lpc, chunks, pos, loaded>>
dash_vars == <<dpc, dash_df, st_errors, executed, load_calls, pre_calls>>

vars == <<fn_pc, fn_arg, fn_ret, heap, caller_df, snapshot, df, ppc, pre_exc,
          pre_line, file_rows, fault, sample_size, lpc, chunks, pos, loaded,
          dpc, dash_df, st_errors, executed, load_calls, pre_calls>>

----------------------------------------------------------------------------
(* Bounds of the model.                                                    *)

\* longest TimeControl text given to categorize_time_control
MaxLen == 4
\* longest ECO text given to get_opening_category
MaxEco == 3
\* most rows of a table given to preprocess_data
MaxRows == 2
\* most data rows of the file given to load_chess_data
MaxFileRows == 5
\* largest sample_size
MaxSample == 5
\* the block size of load_chess_data (chunk_size, 100000 in utils.py line 27),
\* scaled down so that a file of a few rows spans several blocks
chunk_size == 2

----------------------------------------------------------------------------
(* Cells.                                                                  *)

NA == [t |-> "NA", s |-> <<>>, n |-> 0, d |-> 1]
Str(x) == [t |-> "str", s |-> x, n |-> 0, d |-> 1]
IntCell(k) == [t |-> "int", s |-> <<>>, n |-> k, d |-> 1]
FloatCell(k, q) == [t |-> "float", s |-> <<>>, n |-> k, d |-> q]
FloatNaN == [t |-> "nan", s |-> <<>>, n |-> 0, d |-> 1]
\* a category label or a weekday name: text that is never parsed, kept whole
Label(x) == Str(<<x>>)

\* pd.isna(x)
isna(x) == x.t = "NA"

----------------------------------------------------------------------------
(* Text helpers: what str methods and float() do.                          *)

Digits == <<"0", "1", "2", "3", "4", "5", "6", "7", "8", "9">>

IsDigit(c) == \E i \in 1..10 : Digits[i] = c

DigitVal(c) == (CHOOSE i \in 1..10 : Digits[i] = c) - 1

AllDigits(s) == \A i \in 1..Len(s) : IsDigit(s[i])

RECURSIVE NatVal(_)
\* the value of a run of decimal digits
NatVal(s) ==
    IF s = <<>> THEN 0
    ELSE 10 * NatVal(SubSeq(s, 1, Len(s) - 1)) + DigitVal(s[Len(s)])

RECURSIVE Pow10(_)
Pow10(k) == IF k = 0 THEN 1 ELSE 10 * Pow10(k - 1)

\* positions of the character c in s
Positions(s, c) == {i \in 1..Len(s) : s[i] = c}

Min(S) == CHOOSE x \in S : \A y \in S : x <= y

RECURSIVE split(_, _)
\* s.split(c): the list of the parts of s between the occurrences of c
split(s, c) ==
    IF Positions(s, c) = {} THEN <<s>>
    ELSE LET p == Min(Positions(s, c))
         IN <<SubSeq(s, 1, p - 1)>> \o split(SubSeq(s, p + 1, Len(s)), c)

\* float(s), for text over digits, '.', '-', '+' and the letters of "nan":
\* an optional sign, then "nan" or digits with at most one '.', at least one
\* digit.  The result is [ok |-> FALSE] (ValueError) or the parsed cell.
float_unsigned(s) ==
    IF s = <<"n", "a", "n">> THEN [ok |-> TRUE, v |-> FloatNaN]
    ELSE IF Positions(s, ".") = {} THEN
        IF s # <<>> /\ AllDigits(s)
        THEN [ok |-> TRUE, v |-> FloatCell(NatVal(s), 1)]
        ELSE [ok |-> FALSE, v |-> NA]
    ELSE LET p == Min(Positions(s, "."))
             ip == SubSeq(s, 1, p - 1)
             fp == SubSeq(s, p + 1, Len(s))
         IN IF AllDigits(ip) /\ AllDigits(fp) /\ Len(ip) + Len(fp) > 0
            THEN [ok |-> TRUE, v |-> FloatCell(NatVal(ip \o fp), Pow10(Len(fp)))]
            ELSE [ok |-> FALSE, v |-> NA]

float(s) ==
    IF s # <<>> /\ s[1] \in {"-", "+"}
    THEN LET r == float_unsigned(Tail(s))
         IN IF r.ok /\ r.v.t = "float" /\ s[1] = "-"
            THEN [ok |-> TRUE, v |-> FloatCell(0 - r.v.n, r.v.d)]
            ELSE r
    ELSE float_unsigned(s)

\* x < k for a float x and an integer k; every comparison with NaN is False
lt(x, k) == x.t = "float" /\ x.n < k * x.d

\* str.upper() on one character
UpperChar(c) ==
    CASE c = "a" -> "A" [] c = "b" -> "B" [] c = "c" -> "C"
      [] c = "d" -> "D" [] c = "e" -> "E" [] c = "z" -> "Z"
      [] OTHER -> c

upper(s) == [i \in 1..Len(s) |-> UpperChar(s[i])]

----------------------------------------------------------------------------
(* utils.py: the two pure classifiers.  A call returns [exc, val]: the     *)
(* exception it raises ("none" when it returns) and the value it returns.  *)

Return(v) == [exc |-> "none", val |-> v]
Raise(e) == [exc |-> e, val |-> ""]

bullet_limit == 180
blitz_limit == 600
rapid_limit == 3600

\* categorize_time_control with the limits compared by <= (mutant)
categorize_limits_inclusive(x) ==
    IF isna(x) THEN Return("Unknown")
    ELSE LET r == float(split(x.s, "+")[1])
         IN IF ~r.ok THEN Return("Unknown")
            ELSE IF lt(r.v, bullet_limit + 1) THEN Return("Bullet (<3min)")
            ELSE IF lt(r.v, blitz_limit + 1) THEN Return("Blitz (3-10min)")
            ELSE IF lt(r.v, rapid_limit + 1) THEN Return("Rapid (10-60min)")
            ELSE Return("Classical (>60min)")

categorize_time_control(x) ==
    IF isna(x) THEN Return("Unknown")
    ELSE LET r == float(split(x.s, "+")[1])
         IN IF ~r.ok THEN Return("Unknown")
            ELSE IF lt(r.v, bullet_limit) THEN Return("Bullet (<3min)")
            ELSE IF lt(r.v, blitz_limit) THEN Return("Blitz (3-10min)")
            ELSE IF lt(r.v, rapid_limit) THEN Return("Rapid (10-60min)")
            ELSE Return("Classical (>60min)")

categories(c) ==
    CASE c = "A" -> "Flank Openings"
      [] c = "B" -> "Semi-Open Games"
      [] c = "C" -> "Open Games"
      [] c = "D" -> "Closed Games"
      [] c = "E" -> "Indian Defenses"
      [] OTHER -> "Other"

get_opening_category(eco_code) ==
    IF isna(eco_code) THEN Return("Unknown")
    ELSE LET code == upper(eco_code.s)
         IN IF code = <<>> THEN Raise("IndexError")
            ELSE Return(categories(code[1]))

----------------------------------------------------------------------------
(* pd.to_datetime(..., format=..., errors='coerce') on one text.           *)

\* a field of 1 or 2 digits (%m, %d, %H, %M, %S) with a value in lo..hi
Field2(s, lo, hi) ==
    Len(s) \in {1, 2} /\ AllDigits(s) /\ NatVal(s) >= lo /\ NatVal(s) <= hi

IsLeap(y) == (y % 4 = 0 /\ y % 100 # 0) \/ y % 400 = 0

DaysInMonth(y, m) ==
    IF m = 2 THEN (IF IsLeap(y) THEN 29 ELSE 28)
    ELSE IF m \in {4, 6, 9, 11} THEN 30 ELSE 31

RECURSIVE DaysBeforeMonth(_, _)
DaysBeforeMonth(y, m) ==
    IF m = 1 THEN 0 ELSE DaysBeforeMonth(y, m - 1) + DaysInMonth(y, m - 1)

\* days from 0001-01-01 to y-m-d (date.toordinal() - 1)
DayNumber(y, m, d) ==
    (y - 1) * 365 + ((y - 1) \div 4) - ((y - 1) \div 100) + ((y - 1) \div 400)
    + DaysBeforeMonth(y, m) + (d - 1)

Timestamp(day, sec) == [t |-> "datetime", s |-> <<>>, n |-> day, d |-> sec]

\* format '%Y.%m.%d': the day number, or -1 when the text does not match
parse_date(s) ==
    LET p == split(s, ".")
    IN IF /\ Len(p) = 3
          /\ Len(p[1]) = 4 /\ AllDigits(p[1])
          \* the years a datetime64[ns] holds in full
          /\ NatVal(p[1]) >= 1678 /\ NatVal(p[1]) <= 2261
          /\ Field2(p[2], 1, 12)
          /\ Field2(p[3], 1, 31)
          /\ NatVal(p[3]) <= DaysInMonth(NatVal(p[1]), NatVal(p[2]))
       THEN DayNumber(NatVal(p[1]), NatVal(p[2]), NatVal(p[3]))
       ELSE 0 - 1

\* format '%H:%M:%S': the second of the day, or -1
parse_time(s) ==
    LET p == split(s, ":")
    IN IF /\ Len(p) = 3
          /\ Field2(p[1], 0, 23) /\ Field2(p[2], 0, 59) /\ Field2(p[3], 0, 59)
       THEN NatVal(p[1]) * 3600 + NatVal(p[2]) * 60 + NatVal(p[3])
       ELSE 0 - 1

RECURSIVE lstrip(_)
lstrip(s) == IF s # <<>> /\ s[1] = " " THEN lstrip(Tail(s)) ELSE s

\* pd.to_datetime(x, format='%Y.%m.%d', errors='coerce') on one cell
to_datetime_date(x) ==
    IF x.t # "str" THEN NA
    ELSE LET dn == parse_date(x.s)
         IN IF dn < 0 THEN NA ELSE Timestamp(dn, 0)

\* pd.to_datetime(x, format='%Y.%m.%d %H:%M:%S', errors='coerce') on one
\* cell: the date, white space, the time
to_datetime_full(x) ==
    IF x.t # "str" \/ Positions(x.s, " ") = {} THEN NA
    ELSE LET p == Min(Positions(x.s, " "))
             dn == parse_date(SubSeq(x.s, 1, p - 1))
             sec == parse_time(lstrip(SubSeq(x.s, p, Len(x.s))))
         IN IF dn < 0 \/ sec < 0 THEN NA ELSE Timestamp(dn, sec)

\* Series.dt.hour on one value
hour(x) == x.d \div 3600

DayNames ==
    <<"Monday", "Tuesday", "Wednesday", "Thursday", "Friday", "Saturday", "Sunday">>

\* Series.dt.day_name() on one value
day_name(x) == DayNames[(x.n % 7) + 1]

----------------------------------------------------------------------------
(* Series.str.count(r'\d+\.') and Series.str.count(r'\d+\.\.\.') on one    *)
(* text: the runs of digits that a '.' (three '.') follows.                *)

\* i is the last digit of a run of digits of s
EndsRun(s, i) == IsDigit(s[i]) /\ (i = Len(s) \/ ~IsDigit(s[i + 1]))

count_move_dot(s) ==
    Cardinality({i \in 1..Len(s) : EndsRun(s, i) /\ i + 1 <= Len(s) /\ s[i + 1] = "."})

count_move_ellipsis(s) ==
    Cardinality({i \in 1..Len(s) :
        /\ EndsRun(s, i) /\ i + 3 <= Len(s)
        /\ s[i + 1] = "." /\ s[i + 2] = "." /\ s[i + 3] = "."})

----------------------------------------------------------------------------
(* Tables (pandas DataFrames): the columns, the dtype of each column and   *)
(* the rows in order, each row a function from the columns to cells.       *)

Table(c, dt, r) == [cols |-> c, dtype |-> dt, rows |-> r]

column(t, c) == [i \in 1..Len(t.rows) |-> t.rows[i][c]]

\* df[name] = cells: the column is added, or replaced when it exists
with_column(t, name, dt, cells) ==
    Table(t.cols \cup {name},
          [c \in t.cols \cup {name} |-> IF c = name THEN dt ELSE t.dtype[c]],
          [i \in 1..Len(t.rows) |->
              [c \in t.cols \cup {name} |->
                  IF c = name THEN cells[i] ELSE t.rows[i][c]]])

RawCols == {"UTCDate", "UTCTime", "TimeControl", "WhiteElo", "BlackElo", "Result", "AN"}

\* pd.read_csv on the cells of one column of a file, as text: the dtype
IsNumText(x) == x.t = "str" /\ float(x.s).ok /\ float(x.s).v.t = "float"
IsIntText(x) == IsNumText(x) /\ Positions(x.s, ".") = {}

infer_dtype(cells) ==
    IF Len(cells) = 0 THEN "object"
    ELSE IF \A i \in 1..Len(cells) : isna(cells[i]) \/ IsIntText(cells[i])
    THEN (IF \E i \in 1..Len(cells) : isna(cells[i]) THEN "float64" ELSE "int64")
    ELSE IF \A i \in 1..Len(cells) : isna(cells[i]) \/ IsNumText(cells[i])
    THEN "float64"
    ELSE "object"

\* the value read_csv stores for a text cell in a column of dtype dt
typed_cell(x, dt) ==
    IF isna(x) THEN NA
    ELSE IF dt = "int64" THEN IntCell(float(x.s).v.n)
    ELSE IF dt = "float64" THEN float(x.s).v
    ELSE x

\* pd.read_csv(filepath) on the rows of a file (text cells, NA for an empty
\* field) with the header cols
read_csv(cols, textrows) ==
    LET dts == [c \in cols |->
                   infer_dtype([i \in 1..Len(textrows) |-> textrows[i][c]])]
    IN Table(cols, dts,
             [i \in 1..Len(textrows) |->
                 [c \in cols |-> typed_cell(textrows[i][c], dts[c])]])

\* pd.concat(chunks, ignore_index=True) of tables with the same columns:
\* the rows in order; a column keeps its dtype when the blocks agree on it,
\* int64 and float64 give float64, anything else object
join_dtype(a, b) ==
    IF a = b THEN a
    ELSE IF {a, b} = {"int64", "float64"} THEN "float64"
    ELSE "object"

upcast(x, dt) == IF dt = "float64" /\ x.t = "int" THEN FloatCell(x.n, 1) ELSE x

concat2(a, b) ==
    LET dts == [c \in a.cols |-> join_dtype(a.dtype[c], b.dtype[c])]
    IN Table(a.cols, dts,
             [i \in 1..(Len(a.rows) + Len(b.rows)) |->
                 [c \in a.cols |->
                     upcast(IF i <= Len(a.rows) THEN a.rows[i][c]
                            ELSE b.rows[i - Len(a.rows)][c], dts[c])]])

RECURSIVE concat(_)
concat(parts) ==
    IF Len(parts) = 1 THEN parts[1]
    ELSE concat2(concat(SubSeq(parts, 1, Len(parts) - 1)), parts[Len(parts)])

----------------------------------------------------------------------------
(* utils.py: preprocess_data, one operator for each block of the function. *)
(* A block returns [exc, df]: the exception it raises ("none" when it      *)
(* completes), the line that raises it and the table after the block.      *)

Done(t) == [exc |-> "none", line |-> 0, df |-> t]
Abort(e, l, t) == [exc |-> e, line |-> l, df |-> t]

\* lines 58-64: DateTime, Date, Hour, DayOfWeek
DateTimeBlock(t) ==
    IF ~({"UTCDate", "UTCTime"} \subseteq t.cols) THEN Done(t)
    ELSE
    LET N == Len(t.rows)
        date == column(t, "UTCDate")
        time == column(t, "UTCTime")
        \* df['UTCDate'] + ' ': a TypeError on a numeric column; in an object
        \* column the text gets the space and a missing value stays missing
        a == [i \in 1..N |->
                 IF date[i].t = "str" THEN Str(date[i].s \o <<" ">>) ELSE NA]
        \* ... + df['UTCTime']: text + text; text + number is a TypeError
        b == [i \in 1..N |->
                 IF a[i].t = "str" /\ time[i].t = "str"
                 THEN Str(a[i].s \o time[i].s) ELSE NA]
        DateTime == [i \in 1..N |-> to_datetime_full(b[i])]
        Date == [i \in 1..N |-> to_datetime_date(date[i])]
        anyNaT == \E i \in 1..N : isna(DateTime[i])
        \* .dt.hour: int32, or float64 with NaN when a value is NaT
        Hour == [i \in 1..N |->
                    IF isna(DateTime[i]) THEN NA
                    ELSE IF anyNaT THEN FloatCell(hour(DateTime[i]), 1)
                    ELSE IntCell(hour(DateTime[i]))]
        DayOfWeek == [i \in 1..N |->
                         IF isna(Date[i]) THEN NA ELSE Label(day_name(Date[i]))]
    IN
    IF \/ t.dtype["UTCDate"] # "object"
       \/ \E i \in 1..N : ~isna(date[i]) /\ date[i].t # "str"
       \/ \E i \in 1..N : ~isna(a[i]) /\ ~isna(time[i]) /\ time[i].t # "str"
    THEN Abort("TypeError", 59, t)
    ELSE Done(with_column(with_column(with_column(with_column(t,
            "DateTime", "datetime64", DateTime),
            "Date", "datetime64", Date),
            "Hour", IF anyNaT THEN "float64" ELSE "int32", Hour),
            "DayOfWeek", "object", DayOfWeek))

\* Series.astype(float, errors='ignore'): every text is converted, or, when
\* one of them is not a number, the column is returned as it is
astype_float_ignore(cells) ==
    IF \A i \in 1..Len(cells) : isna(cells[i]) \/ float(cells[i].s).ok
    THEN [i \in 1..Len(cells) |->
             IF isna(cells[i]) \/ float(cells[i].s).v.t = "nan" THEN NA
             ELSE float(cells[i].s).v]
    ELSE cells

astype_dtype(cells) ==
    IF \A i \in 1..Len(cells) : isna(cells[i]) \/ float(cells[i].s).ok
    THEN "float64" ELSE "object"

\* lines 67-88: TimeControl_Base, TimeControl_Increment, TimeControl_Grouped
TimeControlBlock(t) ==
    IF ~("TimeControl" \in t.cols) THEN Done(t)
    ELSE
    LET N == Len(t.rows)
        tc == column(t, "TimeControl")
        \* .str.split('+').str[0] and .str[1]: NaN for a missing value and
        \* for a part that is not there
        part(i, k) ==
            IF tc[i].t = "str" /\ Len(split(tc[i].s, "+")) >= k
            THEN Str(split(tc[i].s, "+")[k]) ELSE NA
        base == [i \in 1..N |-> part(i, 1)]
        incr == [i \in 1..N |-> part(i, 2)]
        grouped == [i \in 1..N |-> Label(categorize_time_control(tc[i]).val)]
    IN
    \* the .str accessor is for columns of text only
    IF t.dtype["TimeControl"] # "object" THEN Abort("AttributeError", 68, t)
    ELSE Done(with_column(with_column(with_column(t,
            "TimeControl_Base", astype_dtype(base), astype_float_ignore(base)),
            "TimeControl_Increment", astype_dtype(incr), astype_float_ignore(incr)),
            "TimeControl_Grouped", "object", grouped))

Abs(x) == IF x < 0 THEN 0 - x ELSE x

\* lines 91-93: AvgElo, EloDiff
EloBlock(t) ==
    IF ~({"WhiteElo", "BlackElo"} \subseteq t.cols) THEN Done(t)
    ELSE
    LET N == Len(t.rows)
        w == column(t, "WhiteElo")
        b == column(t, "BlackElo")
        both(i) == ~isna(w[i]) /\ ~isna(b[i])
        AvgElo == [i \in 1..N |->
                      IF both(i)
                      THEN FloatCell(w[i].n * b[i].d + b[i].n * w[i].d,
                                     2 * w[i].d * b[i].d)
                      ELSE NA]
        EloDiff == [i \in 1..N |->
                       IF ~both(i) THEN NA
                       ELSE IF w[i].t = "int" /\ b[i].t = "int"
                       THEN IntCell(Abs(w[i].n - b[i].n))
                       ELSE FloatCell(Abs(w[i].n * b[i].d - b[i].n * w[i].d),
                                      w[i].d * b[i].d)]
        diff_dtype ==
            IF t.dtype["WhiteElo"] = "int64" /\ t.dtype["BlackElo"] = "int64"
            THEN "int64" ELSE "float64"
    IN
    \* text + text is text, and text / 2, text - text, text + number are
    \* TypeErrors; rows with a missing rating are left out of the operation
    IF \E i \in 1..N : both(i) /\ (w[i].t = "str" \/ b[i].t = "str")
    THEN Abort("TypeError", 92, t)
    ELSE Done(with_column(with_column(t,
            "AvgElo", "float64", AvgElo),
            "EloDiff", diff_dtype, EloDiff))

WhiteWinText == <<"1", "-", "0">>
BlackWinText == <<"0", "-", "1">>
DrawText == <<"1", "/", "2", "-", "1", "/", "2">>

\* (df['Result'] == text).astype(int) on one cell
flag(x, text) == IF x.t = "str" /\ x.s = text THEN IntCell(1) ELSE IntCell(0)

\* lines 96-99: WhiteWins, BlackWins, Draw
ResultBlock(t) ==
    IF ~("Result" \in t.cols) THEN Done(t)
    ELSE
    LET N == Len(t.rows)
        res == column(t, "Result")
    IN Done(with_column(with_column(with_column(t,
            "WhiteWins", "int64", [i \in 1..N |-> flag(res[i], WhiteWinText)]),
            "BlackWins", "int64", [i \in 1..N |-> flag(res[i], BlackWinText)]),
            "Draw", "int64", [i \in 1..N |-> flag(res[i], DrawText)]))

\* lines 102-103: MoveCount
MoveCountBlock(t) ==
    IF ~("AN" \in t.cols) THEN Done(t)
    ELSE
    LET N == Len(t.rows)
        an == column(t, "AN")
        anyNA == \E i \in 1..N : an[i].t # "str"
        total(i) == count_move_dot(an[i].s) + count_move_ellipsis(an[i].s)
        \* str.count gives int64, or float64 with NaN when a value is missing
        MoveCount == [i \in 1..N |->
                         IF an[i].t # "str" THEN NA
                         ELSE IF anyNA THEN FloatCell(total(i), 1)
                         ELSE IntCell(total(i))]
    IN
    IF t.dtype["AN"] # "object" THEN Abort("AttributeError", 103, t)
    ELSE Done(with_column(t,
            "MoveCount", IF anyNA THEN "float64" ELSE "int64", MoveCount))

\* r, then the block B when r did not raise
Then(r, B(_)) == IF r.exc = "none" THEN B(r.df) ELSE r

\* preprocess_data as a function of the table it is given: the exception it
\* raises and the table it returns
preprocess_data(t) ==
    Then(Then(Then(Then(DateTimeBlock(t), TimeControlBlock), EloBlock),
              ResultBlock), MoveCountBlock)

\* df = df: the same object under a second name (mutant of df.copy())
df_alias(h, r) == [heap |-> h, ref |-> r]

\* df.copy(): a new object with the same contents
df_copy(h, r) ==
    LET new == Cardinality(DOMAIN h) + 1
    IN [heap |-> h @@ (new :> h[r]), ref |-> new]

----------------------------------------------------------------------------
(* The texts of the fields of the files given to the model.                *)

\* a well-formed date, a Friday
DateGood == Str(<<"2", "0", "1", "6", ".", "0", "7", ".", "0", "1">>)
\* another one, a Sunday
DateGood2 == Str(<<"2", "0", "1", "6", ".", "0", "7", ".", "0", "3">>)
\* no such month
DateBad == Str(<<"2", "0", "1", "6", ".", "1", "3", ".", "0", "1">>)
\* malformed, and a number to read_csv
DateNum == Str(<<"2", "0", "1", "6">>)
TimeGood == Str(<<"1", "2", ":", "3", "0", ":", "0", "0">>)
TimeGood2 == Str(<<"2", "3", ":", "5", "9", ":", "5", "9">>)
\* no such hour
TimeBad == Str(<<"2", "5", ":", "0", "0", ":", "0", "0">>)
\* malformed, and a number to read_csv
TimeNum == Str(<<"1", "2">>)
TCBlitz == Str(<<"3", "0", "0", "+", "3">>)
TCRapid == Str(<<"6", "0", "0", "+", "0">>)
\* the TimeControl of a correspondence game
TCDash == Str(<<"-">>)
\* no increment; a number to read_csv
TCNoPlus == Str(<<"6", "0", "0">>)
\* the increment is not a number
TCBadIncr == Str(<<"1", "8", "0", "+", "x">>)
\* the base is not a number
TCBadBase == Str(<<"x", "+", "5">>)
EloW == Str(<<"1", "5", "0", "0">>)
EloB == Str(<<"1", "5", "2", "0">>)
\* the rating of an unrated player
EloUnknown == Str(<<"?">>)
ResDraw == Str(<<"1", "/", "2", "-", "1", "/", "2">>)
ResWhite == Str(<<"1", "-", "0">>)
ResBlack == Str(<<"0", "-", "1">>)
\* an unfinished game
ResOther == Str(<<"*">>)
\* two move numbers
ANShort == Str(<<"1", ".", " ", "e", "4", " ", "e", "5", " ", "2", ".", " ", "N", "f", "3">>)
\* a move number for each side
ANDots == Str(<<"1", ".", " ", "e", "4", " ", "1", ".", ".", ".", " ", "e", "5">>)
\* no move number
ANNone == Str(<<"e", "4", " ", "e", "5">>)

TextRow(date, time, tc, w, b, res, an) ==
    [c \in RawCols |->
        CASE c = "UTCDate" -> date [] c = "UTCTime" -> time
          [] c = "TimeControl" -> tc [] c = "WhiteElo" -> w
          [] c = "BlackElo" -> b [] c = "Result" -> res [] c = "AN" -> an]

\* the row of the scenario of the documentation, and a second sound row
CleanRow == TextRow(DateGood, TimeGood, TCBlitz, EloW, EloB, ResDraw, ANShort)
CleanRow2 == TextRow(DateGood2, TimeGood2, TCRapid, EloB, EloW, ResWhite, ANDots)
\* a row with nothing in it
EmptyRow == [c \in RawCols |-> NA]

CleanRows == {CleanRow, CleanRow2}

\* the rows that differ from CleanRow in the fields one block reads
FocusRows ==
    {CleanRow, CleanRow2, EmptyRow}
    \cup {[CleanRow EXCEPT !["UTCDate"] = x, !["UTCTime"] = y] :
            x \in {DateGood, DateBad, DateNum, NA},
            y \in {TimeGood, TimeBad, TimeNum, NA}}
    \cup {[CleanRow EXCEPT !["TimeControl"] = x] :
            x \in {TCDash, TCNoPlus, TCBadIncr, TCBadBase, NA}}
    \cup {[CleanRow EXCEPT !["WhiteElo"] = x, !["BlackElo"] = y] :
            x \in {EloW, EloUnknown, NA}, y \in {EloB, EloUnknown, NA}}
    \cup {[CleanRow EXCEPT !["Result"] = x] :
            x \in {ResWhite, ResBlack, ResOther, NA}}
    \cup {[CleanRow EXCEPT !["AN"] = x] : x \in {ANDots, ANNone, NA}}

SeqsUpTo(S, k) == UNION {[1..m -> S] : m \in 0..k}

project(row, cols) == [c \in cols |-> row[c]]

\* the tables read from a file with every column, and the tables read from
\* a file of sound rows with any of the columns
BaseRows == {CleanRow, CleanRow2, EmptyRow}

\* the rows of a file: at most one of them differs from the three base rows
FileRows ==
    {rows \in SeqsUpTo(FocusRows, MaxRows) :
        Cardinality({i \in 1..Len(rows) : rows[i] \notin BaseRows}) <= 1}

InputTables ==
    {read_csv(RawCols, rows) : rows \in FileRows}
    \cup {read_csv(cols, [i \in 1..Len(rows) |-> project(rows[i], cols)]) :
            cols \in SUBSET RawCols, rows \in SeqsUpTo(CleanRows, MaxRows)}

----------------------------------------------------------------------------
(* SpecPre: one call of preprocess_data(df) by a caller that keeps its     *)
(* reference to the raw table.                                             *)

FnIdle ==
    /\ fn_pc = "idle"
    /\ fn_arg = NA
    /\ fn_ret = Raise("idle")

NoTable == Table({}, <<>>, <<>>)
None == [none |-> TRUE, df |-> NoTable]
Some(t) == [none |-> FALSE, df |-> t]

LoadIdle ==
    /\ file_rows = <<>>
    /\ fault = 0
    /\ sample_size = 0
    /\ lpc = "idle"
    /\ chunks = <<>>
    /\ pos = 0
    /\ loaded = [none |-> TRUE, df |-> NoTable, index |-> <<>>]

DashIdle ==
    /\ dpc = "idle"
    /\ dash_df = None
    /\ st_errors = <<>>
    /\ executed = {}
    /\ load_calls = 0
    /\ pre_calls = 0

PreIdle ==
    /\ heap = <<>>
    /\ caller_df = 0
    /\ snapshot = NoTable
    /\ df = 0
    /\ ppc = "idle"
    /\ pre_exc = "none"
    /\ pre_line = 0

PreInit ==
    /\ snapshot \in InputTables
    /\ heap = (1 :> snapshot)
    /\ caller_df = 1
    /\ df = 0
    /\ ppc = "call"
    /\ pre_exc = "none"
    /\ pre_line = 0
    /\ FnIdle /\ LoadIdle /\ DashIdle

\* line 55: df = df.copy()
PreCopy ==
    /\ ppc = "call"
    /\ LET c == df_copy(heap, caller_df)
       IN heap' = c.heap /\ df' = c.ref
    /\ ppc' = "datetime"
    /\ UNCHANGED <<caller_df, snapshot, pre_exc, pre_line, fn_vars, load_vars, dash_vars>>

\* one block of the function on the table df names
PreBlock(at, Block(_), next) ==
    /\ ppc = at
    /\ LET r == Block(heap[df])
       IN IF r.exc = "none"
          THEN /\ heap' = [heap EXCEPT ![df] = r.df]
               /\ ppc' = next
               /\ UNCHANGED <<pre_exc, pre_line>>
          ELSE /\ heap' = heap
               /\ ppc' = "raised"
               /\ pre_exc' = r.exc
               /\ pre_line' = r.line
    /\ UNCHANGED <<caller_df, snapshot, df, fn_vars, load_vars, dash_vars>>

PreDateTime == PreBlock("datetime", DateTimeBlock, "timecontrol")
PreTimeControl == PreBlock("timecontrol", TimeControlBlock, "elo")
PreElo == PreBlock("elo", EloBlock, "result")
PreResult == PreBlock("result", ResultBlock, "movecount")
PreMoveCount == PreBlock("movecount", MoveCountBlock, "return")

\* line 105: return df
PreReturn ==
    /\ ppc = "return"
    /\ ppc' = "done"
    /\ UNCHANGED <<heap, caller_df, snapshot, df, pre_exc, pre_line, fn_vars, load_vars, dash_vars>>

PreNext ==
    \/ PreCopy
    \/ PreDateTime
    \/ PreTimeControl
    \/ PreElo
    \/ PreResult
    \/ PreMoveCount
    \/ PreReturn

SpecPre == PreInit /\ [][PreNext]_vars

----------------------------------------------------------------------------
(* utils.py: load_chess_data(filepath, sample_size).                       *)

RECURSIVE TotalRows(_)
\* the rows of a list of blocks
TotalRows(parts) ==
    IF parts = <<>> THEN 0
    ELSE Len(parts[Len(parts)].rows) + TotalRows(SubSeq(parts, 1, Len(parts) - 1))

RECURSIVE Ascending(_)
Ascending(S) == IF S = {} THEN <<>> ELSE <<Min(S)>> \o Ascending(S \ {Min(S)})

\* the loop test with > for >= (mutant)
stop_test_strict(parts, n) == Len(parts) * chunk_size > n

\* line 31: the test that ends the loop after a block
stop_test(parts, n) == Len(parts) * chunk_size >= n

\* line 34: the number of rows df.sample is asked for
sample_n(n, t) == IF n < Len(t.rows) THEN n ELSE Len(t.rows)

NoResult == [none |-> TRUE, df |-> NoTable, index |-> <<>>]
Result(t, idx) == [none |-> FALSE, df |-> t, index |-> idx]

\* an exception of pd.read_csv leaves load_chess_data, which has no handler:
\* the blocks read so far are dropped and nothing is returned
read_failure(parts) == [lpc |-> "raised", ret |-> NoResult]

\* lines 25, 29, 36: the call opens the file
LoadOpen ==
    /\ lpc = "start"
    /\ IF fault = 0 - 1
       THEN /\ lpc' = read_failure(chunks).lpc
            /\ loaded' = read_failure(chunks).ret
       ELSE /\ lpc' = IF sample_size # 0 THEN "next" ELSE "read_all"
            /\ UNCHANGED loaded
    /\ UNCHANGED <<file_rows, fault, sample_size, chunks, pos>>
    /\ UNCHANGED <<fn_vars, pre_vars, dash_vars>>

\* line 36: pd.read_csv(filepath), the whole file
LoadReadAll ==
    /\ lpc = "read_all"
    /\ IF fault # 0
       THEN /\ lpc' = read_failure(chunks).lpc
            /\ loaded' = read_failure(chunks).ret
            /\ UNCHANGED pos
       ELSE /\ lpc' = "returned"
            /\ loaded' = Result(read_csv(RawCols, file_rows),
                                [i \in 1..Len(file_rows) |-> i])
            /\ pos' = Len(file_rows)
    /\ UNCHANGED <<file_rows, fault, sample_size, chunks>>
    /\ UNCHANGED <<fn_vars, pre_vars, dash_vars>>

\* lines 29-30: the reader yields the next block, which is appended.  The
\* first block of a file without data rows is an empty table; after the last
\* row the iteration ends.
LoadNextChunk ==
    /\ lpc = "next"
    /\ LET k == Len(chunks) + 1
           last == IF pos + chunk_size < Len(file_rows)
                   THEN pos + chunk_size ELSE Len(file_rows)
       IN IF fault = k
          THEN /\ lpc' = read_failure(chunks).lpc
               /\ loaded' = read_failure(chunks).ret
               /\ UNCHANGED <<chunks, pos>>
          ELSE IF pos = Len(file_rows) /\ k > 1
          THEN /\ lpc' = "concat"
               /\ UNCHANGED <<chunks, pos, loaded>>
          ELSE /\ chunks' = Append(chunks,
                                   read_csv(RawCols, SubSeq(file_rows, pos + 1, last)))
               /\ pos' = last
               /\ lpc' = "test"
               /\ UNCHANGED loaded
    /\ UNCHANGED <<file_rows, fault, sample_size>>
    /\ UNCHANGED <<fn_vars, pre_vars, dash_vars>>

\* lines 31-32: if len(chunks) * chunk_size >= sample_size: break
LoadTest ==
    /\ lpc = "test"
    /\ lpc' = IF stop_test(chunks, sample_size) THEN "concat" ELSE "next"
    /\ UNCHANGED <<file_rows, fault, sample_size, chunks, pos, loaded>>
    /\ UNCHANGED <<fn_vars, pre_vars, dash_vars>>

\* lines 33-34, 38: concat, sample, return.  df.sample draws without
\* replacement and keeps the index labels; which rows the seed 42 draws is
\* left open, and the rows are kept in the order of their labels.
LoadSample ==
    /\ lpc = "concat"
    /\ LET t == concat(chunks)
       IN \E S \in SUBSET (1..Len(t.rows)) :
            /\ Cardinality(S) = sample_n(sample_size, t)
            /\ loaded' = Result(Table(t.cols, t.dtype,
                                      [i \in 1..Cardinality(S) |->
                                          t.rows[Ascending(S)[i]]]),
                                Ascending(S))
    /\ lpc' = "returned"
    /\ UNCHANGED <<file_rows, fault, sample_size, chunks, pos>>
    /\ UNCHANGED <<fn_vars, pre_vars, dash_vars>>

\* the blocks a file of n rows is read in
NBlocks(n) == IF n = 0 THEN 1 ELSE (n + chunk_size - 1) \div chunk_size

LoaderRows == {CleanRow, EmptyRow}

\* a file, sound or not, before it is read
FileInit ==
    /\ file_rows \in SeqsUpTo(LoaderRows, MaxFileRows)
    /\ fault \in (0 - 1)..NBlocks(Len(file_rows))
    /\ chunks = <<>>
    /\ pos = 0
    /\ loaded = NoResult

\* SpecLoad: one call of load_chess_data by a caller that passes any sample
\* size, or none
LoadInit ==
    /\ FileInit
    /\ lpc = "start"
    /\ sample_size \in 0..MaxSample
    /\ dpc = "direct" /\ dash_df = None /\ st_errors = <<>> /\ executed = {}
    /\ load_calls = 1 /\ pre_calls = 0
    /\ FnIdle /\ PreIdle

LoadNext ==
    \/ LoadOpen
    \/ LoadReadAll
    \/ LoadNextChunk
    \/ LoadTest
    \/ LoadSample

SpecLoad == LoadInit /\ [][LoadNext]_vars

----------------------------------------------------------------------------
(* dashboard.py: the script up to its first chart.                         *)

\* a test that lets a missing table through (mutant)
must_stop_only_empty(d) == ~d.none /\ Len(d.df.rows) = 0

\* line 73: df is None or df.empty
must_stop(d) == d.none \/ Len(d.df.rows) = 0 \/ d.df.cols = {}

\* lines 60-67: the slider gives the sample size
DashSlider ==
    /\ dpc = "slider"
    /\ sample_size' \in 1..MaxSample
    /\ dpc' = "load_data"
    /\ UNCHANGED <<dash_df, st_errors, executed, load_calls, pre_calls>>
    /\ UNCHANGED <<file_rows, fault, lpc, chunks, pos, loaded, fn_vars, pre_vars>>

\* lines 70-71, 52: load_data(sample_size) calls load_chess_data
DashCallLoad ==
    /\ dpc = "load_data"
    /\ lpc' = "start"
    /\ load_calls' = load_calls + 1
    /\ dpc' = "in_load_data"
    /\ UNCHANGED <<dash_df, st_errors, executed, pre_calls>>
    /\ UNCHANGED <<file_rows, fault, sample_size, chunks, pos, loaded, fn_vars, pre_vars>>

\* lines 53-57: df = preprocess_data(df_raw); return df, or, when
\* preprocess_data raises, st.error and return None
DashPreprocess ==
    /\ dpc = "in_load_data"
    /\ lpc = "returned"
    /\ pre_calls' = pre_calls + 1
    /\ LET r == preprocess_data(loaded.df)
       IN IF r.exc = "none"
          THEN dash_df' = Some(r.df) /\ UNCHANGED st_errors
          ELSE dash_df' = None /\ st_errors' = Append(st_errors, "Error loading data")
    /\ dpc' = "check"
    /\ UNCHANGED <<executed, load_calls, load_vars, fn_vars, pre_vars>>

\* lines 55-57: load_chess_data raised: st.error and return None
DashLoadFailed ==
    /\ dpc = "in_load_data"
    /\ lpc = "raised"
    /\ st_errors' = Append(st_errors, "Error loading data")
    /\ dash_df' = None
    /\ dpc' = "check"
    /\ UNCHANGED <<executed, load_calls, pre_calls, load_vars, fn_vars, pre_vars>>

\* lines 73-75: no table, or an empty one: st.error, st.stop()
DashCheck ==
    /\ dpc = "check"
    /\ IF must_stop(dash_df)
       THEN st_errors' = Append(st_errors, "Failed to load data") /\ dpc' = "stopped"
       ELSE UNCHANGED st_errors /\ dpc' = "filters"
    /\ UNCHANGED <<dash_df, executed, load_calls, pre_calls, load_vars, fn_vars, pre_vars>>

\* a later stage of the script
DashStage(at, next) ==
    /\ dpc = at
    /\ executed' = executed \cup {at}
    /\ dpc' = next
    /\ UNCHANGED <<dash_df, st_errors, load_calls, pre_calls, load_vars, fn_vars, pre_vars>>

\* lines 77-102: the sidebar filters
DashFilters == DashStage("filters", "metrics")
\* lines 104-118: the key metrics
DashMetrics == DashStage("metrics", "charts")
\* lines 120-370: the charts
DashCharts == DashStage("charts", "done")

DashInit ==
    /\ FileInit
    /\ lpc = "idle"
    /\ sample_size = 0
    /\ dpc = "slider" /\ dash_df = None /\ st_errors = <<>> /\ executed = {}
    /\ load_calls = 0 /\ pre_calls = 0
    /\ FnIdle /\ PreIdle

DashNext ==
    \/ DashSlider
    \/ DashCallLoad
    \/ LoadOpen
    \/ LoadNextChunk
    \/ LoadTest
    \/ LoadSample
    \/ DashPreprocess
    \/ DashLoadFailed
    \/ DashCheck
    \/ DashFilters
    \/ DashMetrics
    \/ DashCharts

SpecDash == DashInit /\ [][DashNext]_vars

----------------------------------------------------------------------------
(* SpecFn: one call of a classifier on an argument drawn from the texts of *)
(* bounded length over a small alphabet, or on a missing value.            *)

TCAlphabet == {"0", "1", "3", "6", "8", ".", "+", "-", "n", "a"}
ECOAlphabet == {"A", "B", "C", "D", "E", "a", "b", "c", "d", "e", "Z", "z", "1"}

Texts(A, k) == UNION {[1..m -> A] : m \in 0..k}

TCInputs == {NA} \cup {Str(s) : s \in Texts(TCAlphabet, MaxLen)}
ECOInputs == {NA} \cup {Str(s) : s \in Texts(ECOAlphabet, MaxEco)}

FnInit ==
    /\ PreIdle /\ LoadIdle /\ DashIdle
    /\ fn_pc \in {"call_tc", "call_eco"}
    /\ fn_arg \in (IF fn_pc = "call_tc" THEN TCInputs ELSE ECOInputs)
    /\ fn_ret = Raise("pending")

CallCategorize ==
    /\ fn_pc = "call_tc"
    /\ fn_ret' = categorize_time_control(fn_arg)
    /\ fn_pc' = "done_tc"
    /\ UNCHANGED <<fn_arg, pre_vars, load_vars, dash_vars>>

CallOpening ==
    /\ fn_pc = "call_eco"
    /\ fn_ret' = get_opening_category(fn_arg)
    /\ fn_pc' = "done_eco"
    /\ UNCHANGED <<fn_arg, pre_vars, load_vars, dash_vars>>

FnNext == CallCategorize \/ CallOpening

SpecFn == FnInit /\ [][FnNext]_vars

----------------------------------------------------------------------------
(* Claims about the classifiers, under SpecFn.                             *)

FiveLabels ==
    {"Unknown", "Bullet (<3min)", "Blitz (3-10min)", "Rapid (10-60min)",
     "Classical (>60min)"}

\* C1: categorize_time_control never raises and returns one of the five
\* labels; 'Unknown' for a missing value and for a text whose part before
\* the first '+' is not a number; for a base of b seconds Bullet when
\* b < 180, Blitz when 180 <= b < 600, Rapid when 600 <= b < 3600 and
\* Classical when b >= 3600.
C1_TimeControlTotal ==
    fn_pc = "done_tc" =>
        LET r == IF isna(fn_arg) THEN [ok |-> FALSE, v |-> NA]
                 ELSE float(split(fn_arg.s, "+")[1])
            b == r.v
        IN /\ fn_ret.exc = "none"
           /\ fn_ret.val \in FiveLabels
           /\ (isna(fn_arg) \/ ~r.ok) => fn_ret.val = "Unknown"
           /\ (r.ok /\ b.t = "float") =>
                /\ b.n < 180 * b.d => fn_ret.val = "Bullet (<3min)"
                /\ (180 * b.d <= b.n /\ b.n < 600 * b.d)
                       => fn_ret.val = "Blitz (3-10min)"
                /\ (600 * b.d <= b.n /\ b.n < 3600 * b.d)
                       => fn_ret.val = "Rapid (10-60min)"
                /\ 3600 * b.d <= b.n => fn_ret.val = "Classical (>60min)"

\* C1 witness: the call on "180" has returned Blitz
C1_Witness ==
    /\ fn_pc = "done_tc"
    /\ fn_arg = Str(<<"1", "8", "0">>)
    /\ fn_ret = Return("Blitz (3-10min)")

\* C2: get_opening_category never raises; 'Unknown' for a missing code, and
\* for every other code, the empty text included, the label of its
\* uppercased first character, 'Other' when there is no such character in
\* the table.
C2_OpeningTotal ==
    fn_pc = "done_eco" =>
        /\ fn_ret.exc = "none"
        /\ isna(fn_arg) => fn_ret.val = "Unknown"
        /\ (~isna(fn_arg) /\ fn_arg.s = <<>>) => fn_ret.val = "Other"
        /\ (~isna(fn_arg) /\ fn_arg.s # <<>>) =>
               fn_ret.val = categories(UpperChar(fn_arg.s[1]))

----------------------------------------------------------------------------
(* Claims about preprocess_data, under SpecPre.                            *)

Finished == ppc \in {"done", "raised"}

\* the derived columns of a table
Derived(t) == t.cols \ RawCols

\* C4: preprocess_data never mutates its input: at every point of a call,
\* and after it, the caller's table has the columns, rows and cells it had
\* before the call, and the returned table is another object.
C4_InputNotMutated ==
    ppc # "idle" =>
        /\ heap[caller_df] = snapshot
        /\ ppc = "done" => df # caller_df

\* C4 witness: a call has returned a table with derived columns and rows
C4_Witness ==
    /\ ppc = "done"
    /\ Derived(heap[df]) # {}
    /\ Len(heap[df].rows) > 0
    /\ heap[caller_df] = snapshot

\* C5: preprocess_data returns as many rows as it was given, in the same
\* order, and no malformed or missing cell aborts it.
C5_RowCountPreserved ==
    Finished =>
        /\ ppc = "done"
        /\ Len(heap[df].rows) = Len(snapshot.rows)
        /\ \A i \in 1..Len(snapshot.rows) :
               project(heap[df].rows[i], snapshot.cols) = snapshot.rows[i]

\* the dtype read_csv gives the column of a file with this one cell
NaturalDtype(x) ==
    CASE x.t = "str" -> "object" [] x.t = "int" -> "int64" [] OTHER -> "float64"

\* the table of the one-row file that holds row i of t, when read_csv gives
\* that file the dtypes of t
OneRow(t, i) == Table(t.cols, t.dtype, <<t.rows[i]>>)
SameAlone(t, i) == \A c \in t.cols : t.dtype[c] = NaturalDtype(t.rows[i][c])

\* text, number, datetime or null
Kind(x) == IF x.t \in {"int", "float"} THEN "number" ELSE x.t

\* the same value of the same kind; an int and a float of the same value
\* count as the same
SameCell(x, y) ==
    /\ Kind(x) = Kind(y)
    /\ IF Kind(x) = "number" THEN x.n * y.d = y.n * x.d ELSE x = y

\* C6: every derived field of a row is a function of the raw fields of that
\* row: the row has the same derived values, of the same types, in the
\* output of a table that holds it with other rows and in the output of the
\* table that holds it alone.
C6_RowLocal ==
    ppc = "done" =>
        \A i \in 1..Len(snapshot.rows) :
            (SameAlone(snapshot, i)
             /\ preprocess_data(OneRow(snapshot, i)).exc = "none")
            => \A c \in Derived(heap[df]) :
                   SameCell(heap[df].rows[i][c],
                            preprocess_data(OneRow(snapshot, i)).df.rows[1][c])

\* the part of a TimeControl cell on side k of the '+' (1: base, 2: increment)
Side(x, k) ==
    IF x.t = "str" /\ Len(split(x.s, "+")) >= k
    THEN Str(split(x.s, "+")[k]) ELSE NA

ParsesAsNumber(x) == x.t = "str" /\ float(x.s).ok /\ float(x.s).v.t = "float"

\* C7: the base and the increment fail independently: a side that is
\* missing or not a number gives a null derived field for that row, and a
\* side that parses gives that number, never the raw text.
C7_IndependentFailure ==
    (ppc = "done" /\ "TimeControl" \in snapshot.cols) =>
        \A i \in 1..Len(snapshot.rows) :
            LET tc == snapshot.rows[i]["TimeControl"]
                out == heap[df].rows[i]
                Right(side, cell) ==
                    IF ParsesAsNumber(side) THEN cell = float(side.s).v
                    ELSE isna(cell)
            IN /\ Right(Side(tc, 1), out["TimeControl_Base"])
               /\ Right(Side(tc, 2), out["TimeControl_Increment"])

\* the derived columns the documentation promises for the raw columns cols
PromisedCols(cols) ==
    (IF "UTCDate" \in cols THEN {"Date", "DayOfWeek"} ELSE {})
    \cup (IF {"UTCDate", "UTCTime"} \subseteq cols THEN {"DateTime", "Hour"} ELSE {})
    \cup (IF "TimeControl" \in cols
          THEN {"TimeControl_Base", "TimeControl_Increment", "TimeControl_Grouped"}
          ELSE {})
    \cup (IF {"WhiteElo", "BlackElo"} \subseteq cols THEN {"AvgElo", "EloDiff"} ELSE {})
    \cup (IF "Result" \in cols THEN {"WhiteWins", "BlackWins", "Draw"} ELSE {})
    \cup (IF "AN" \in cols THEN {"MoveCount"} ELSE {})

\* a table of sound rows: no cell is missing, the ratings are numbers and
\* the other columns are text
Sound(t) ==
    /\ \A i \in 1..Len(t.rows) : \A c \in t.cols : ~isna(t.rows[i][c])
    /\ \A c \in t.cols :
           t.dtype[c] = IF c \in {"WhiteElo", "BlackElo"} THEN "int64" ELSE "object"

\* C8: for every subset of the raw columns, preprocess_data completes and
\* produces the columns of a derivation exactly when the raw columns that
\* derivation reads are there; Date and DayOfWeek need UTCDate alone.
C8_PartialSchema ==
    (Finished /\ Sound(snapshot)) =>
        /\ ppc = "done"
        /\ Derived(heap[df]) = PromisedCols(snapshot.cols)

\* C10: the date-only parse and the date-time parse are decoupled per row.
\* The block of lines 58-64 never raises; a row with a well-formed UTCDate
\* and a malformed or missing UTCTime has a null DateTime and Hour and a
\* non-null Date and DayOfWeek; Hour is null exactly when DateTime is, and
\* otherwise a whole number in 0..23; DayOfWeek is null exactly when Date
\* is; each row's DateTime and Date are those of its own two fields.
C10_DateDecoupled ==
    ({"UTCDate", "UTCTime"} \subseteq snapshot.cols
     /\ ppc \notin {"idle", "call", "datetime"}) =>
        /\ ~(ppc = "raised" /\ pre_line = 59)
        /\ "DateTime" \in heap[df].cols =>
            \A i \in 1..Len(snapshot.rows) :
                LET date == snapshot.rows[i]["UTCDate"]
                    time == snapshot.rows[i]["UTCTime"]
                    out == heap[df].rows[i]
                    goodDate == date.t = "str" /\ parse_date(date.s) >= 0
                    goodTime == time.t = "str" /\ parse_time(time.s) >= 0
                IN /\ (goodDate /\ ~goodTime) =>
                        /\ isna(out["DateTime"]) /\ isna(out["Hour"])
                        /\ ~isna(out["Date"]) /\ ~isna(out["DayOfWeek"])
                   /\ isna(out["Hour"]) <=> isna(out["DateTime"])
                   /\ ~isna(out["Hour"]) =>
                        /\ out["Hour"].n % out["Hour"].d = 0
                        /\ out["Hour"].n \div out["Hour"].d \in 0..23
                   /\ isna(out["DayOfWeek"]) <=> isna(out["Date"])
                   /\ isna(out["DateTime"]) <=> ~(goodDate /\ goodTime)
                   /\ isna(out["Date"]) <=> ~goodDate

----------------------------------------------------------------------------
(* Claims about load_chess_data, under SpecLoad, and about the dashboard,  *)
(* under SpecDash.                                                         *)

\* the rows of block k of the file
BlockRows(k) ==
    SubSeq(file_rows, (k - 1) * chunk_size + 1,
           IF k * chunk_size < Len(file_rows) THEN k * chunk_size ELSE Len(file_rows))

Count(seq, x) == Cardinality({i \in 1..Len(seq) : seq[i] = x})

====
